---------------------------- MODULE Spec2Model ----------------------------
(***************************************************************************)
(* Model of src/src/main.cpp: the bootstrap sequence, the frame loop with  *)
(* its event drain, pan integration and fixed-step zoom smoothing, and the *)
(* teardown sequence.                                                      *)
(*                                                                         *)
(* Numbers.  The program computes in binary32 (float).  A float is         *)
(* modelled as <<m, e>>, standing for m * 2^e, with 2^23 <= |m| < 2^24, or *)
(* as <<0, 0>>; every operation rounds its exact result to the nearest     *)
(* such value, ties to even, as the hardware does.  The values the program *)
(* computes stay far from the subnormal and the infinite ranges, so the    *)
(* exponent is left unbounded.  Frame durations are drawn in nanoseconds,  *)
(* the unit of steady_clock, and converted as the program converts them.   *)
(***************************************************************************)
EXTENDS Integers, Sequences, FiniteSets

\* ------------------------------------------------------------ bounds
MaxFrames == 2
MaxEvents == 2

\* ------------------------------------------------------------ binary32
\* Body applied to the value of val: val is evaluated once, however often
\* Body uses its operand
Bind(val, Body(_)) == CHOOSE r \in { Body(p) : p \in {val} } : TRUE

Abs(x) == IF x < 0 THEN -x ELSE x

Sgn(x) == IF x < 0 THEN -1 ELSE 1

\* the number of bits of n, 0 <= n < 2^31: the k with 2^(k-1) <= n < 2^k
BitLen(n) ==
    IF n = 0 THEN 0
    ELSE IF n >= 2 ^ 30 THEN 31
    ELSE CHOOSE k \in 1..30 : 2 ^ (k - 1) <= n /\ n < 2 ^ k

\* n / 2^k truncated, its lowest bit set when a one was shifted out
ShiftJam(n, k) ==
    IF k >= 30 THEN 1
    ELSE IF n % (2 ^ k) # 0 /\ (n \div (2 ^ k)) % 2 = 0 THEN (n \div (2 ^ k)) + 1
    ELSE n \div (2 ^ k)

\* mag / 2^sh rounded to the nearest integer, ties to even
RoundShift(mag, sh) ==
    LET q == mag \div (2 ^ sh)
        r == mag % (2 ^ sh)
        h == 2 ^ (sh - 1)
    IN  IF r > h \/ (r = h /\ q % 2 = 1) THEN q + 1 ELSE q

\* FNorm for n # 0 of k bits
NormBits(n, e, k) ==
    IF k <= 24 THEN <<n * (2 ^ (24 - k)), e - (24 - k)>>
    ELSE Bind(RoundShift(Abs(n), k - 24),
              LAMBDA q1 : IF q1 = 2 ^ 24 THEN <<Sgn(n) * (2 ^ 23), (e + (k - 24)) + 1>>
                          ELSE <<Sgn(n) * q1, e + (k - 24)>>)

\* the binary32 nearest n * 2^e, ties to even, as <<m, e>>
FNorm(n0, e0) ==
    Bind(<<n0, e0>>,
         LAMBDA p : IF p[1] = 0 THEN <<0, 0>>
                    ELSE Bind(BitLen(Abs(p[1])), LAMBDA k : NormBits(p[1], p[2], k)))

FromInt(n) == FNorm(n, 0)

FNeg(x0) == Bind(x0, LAMBDA x : <<-x[1], x[2]>>)

FAbs(x0) == Bind(x0, LAMBDA x : <<Abs(x[1]), x[2]>>)

\* hi + lo for hi[2] >= lo[2], neither of them 0
AddOrdered(hi, lo) ==
    IF hi[2] - lo[2] <= 5
    THEN FNorm((hi[1] * (2 ^ (hi[2] - lo[2]))) + lo[1], lo[2])
    ELSE FNorm((hi[1] * 32) + (Sgn(lo[1]) * ShiftJam(Abs(lo[1]), (hi[2] - lo[2]) - 5)),
               hi[2] - 5)

FAdd(x0, y0) ==
    Bind(<<x0, y0>>,
         LAMBDA p : IF p[1][1] = 0 THEN p[2]
                    ELSE IF p[2][1] = 0 THEN p[1]
                    ELSE IF p[1][2] >= p[2][2] THEN AddOrdered(p[1], p[2])
                    ELSE AddOrdered(p[2], p[1]))

FSub(x, y) == FAdd(x, FNeg(y))

\* the product a * b of two 24-bit magnitudes, as <<a * b \div 2^24, a * b % 2^24>>
Product(a, b) ==
    LET a1 == a \div 4096
        a0 == a % 4096
        b1 == b \div 4096
        b0 == b % 4096
        mid  == (a1 * b0) + (a0 * b1)
        low  == ((mid % 4096) * 4096) + (a0 * b0)
    IN  <<(a1 * b1) + (mid \div 4096) + (low \div (2 ^ 24)), low % (2 ^ 24)>>

\* hl[1] * 2^5 + hl[2] / 2^19 truncated, its lowest bit set when a one was lost
JamProduct(hl) ==
    LET q == (hl[1] * 32) + (hl[2] \div (2 ^ 19))
    IN  IF hl[2] % (2 ^ 19) # 0 /\ q % 2 = 0 THEN q + 1 ELSE q

FMul(x0, y0) ==
    Bind(<<x0, y0>>,
         LAMBDA p : IF p[1][1] = 0 \/ p[2][1] = 0 THEN <<0, 0>>
                    ELSE Bind(Product(Abs(p[1][1]), Abs(p[2][1])),
                              LAMBDA hl : FNorm(Sgn(p[1][1]) * Sgn(p[2][1]) * JamProduct(hl),
                                                p[1][2] + p[2][2] + 19)))

\* one round of long division by b: qr = <<quotient, remainder>> so far, m = 2^bits
DivStep(qr0, b, m) ==
    Bind(qr0, LAMBDA qr : <<(qr[1] * m) + ((qr[2] * m) \div b), (qr[2] * m) % b>>)

\* <<a * 2^27 \div b, a * 2^27 % b>> for 24-bit magnitudes a and b
DivBits(a, b) ==
    DivStep(DivStep(DivStep(DivStep(<<a \div b, a % b>>, b, 128), b, 128), b, 128), b, 64)

FDiv(x0, y0) ==
    Bind(<<x0, y0>>,
         LAMBDA p : IF p[1][1] = 0 THEN <<0, 0>>
                    ELSE Bind(DivBits(Abs(p[1][1]), Abs(p[2][1])),
                              LAMBDA qr : FNorm(Sgn(p[1][1]) * Sgn(p[2][1])
                                                    * (IF qr[2] # 0 /\ qr[1] % 2 = 0
                                                       THEN qr[1] + 1 ELSE qr[1]),
                                                (p[1][2] - p[2][2]) - 27)))

\* x < y for values
Less(x, y) ==
    IF x[1] < 0 /\ y[1] >= 0 THEN TRUE
    ELSE IF x[1] >= 0 /\ y[1] <= 0 THEN FALSE
    ELSE IF x[1] = 0 THEN TRUE
    ELSE IF x[1] > 0 THEN x[2] < y[2] \/ (x[2] = y[2] /\ x[1] < y[1])
    ELSE x[2] > y[2] \/ (x[2] = y[2] /\ x[1] < y[1])

FLt(x0, y0) == Bind(<<x0, y0>>, LAMBDA p : Less(p[1], p[2]))

FLe(x, y) == ~FLt(y, x)

Zero == <<0, 0>>

\* the float literal written n/d in decimal: the binary32 nearest to it
Dec(n, d) == FDiv(FromInt(n), FromInt(d))

\* ------------------------------------------------------------ numbers
\* std::chrono::duration<float>{ 1.0f / 60.0f }
ft == FDiv(FromInt(1), FromInt(60))

\* the conversion of a steady_clock duration of ns nanoseconds to
\* std::chrono::duration<float>: float(ns) / float(1000000000)
Seconds(ns) == FDiv(FromInt(ns), FromInt(1000000000))

One == FromInt(1)
MinZoom == Dec(1, 100000)
MaxZoom == FromInt(100)
MaxOffset == FromInt(16)
Epsilon == Dec(1, 100000)

\* fault seeded for C1: the value is not clamped
Clamp_NoClamp(v0, lo, hi) == v0

\* std::clamp(v, lo, hi)
Clamp(v0, lo, hi) ==
    Bind(v0, LAMBDA v : IF FLt(v, lo) THEN lo ELSE IF FLt(hi, v) THEN hi ELSE v)

\* a bool used as an arithmetic operand: (ev.wheel.y > 0) * x
BoolInt(b) == IF b THEN 1 ELSE 0

\* zoom / 1.025f and zoom * 1.025f
Div1025(z) == FDiv(z, Dec(1025, 1000))
Mul1025(z) == FMul(z, Dec(1025, 1000))

\* fault seeded for C6: the two scroll directions are exchanged
WheelTarget_Swapped(y, z) ==
    Clamp(FAdd(FMul(FromInt(BoolInt(y > 0)), Mul1025(z)),
               FMul(FromInt(BoolInt(y < 0)), Div1025(z))), MinZoom, MaxZoom)

\* the right-hand side of the SDL_MOUSEWHEEL assignment
WheelTarget(y, z) ==
    Clamp(FAdd(FMul(FromInt(BoolInt(y > 0)), Div1025(z)),
               FMul(FromInt(BoolInt(y < 0)), Mul1025(z))), MinZoom, MaxZoom)

\* 0.01f * zoom * 30.0f * dt.count()
PanDelta(z, d) == FMul(FMul(FMul(Dec(1, 100), z), FromInt(30)), d)

\* fault seeded for C8: the factor is 10.0f, the fixed step forgotten
Lerp_Overshoot(a, b) == FAdd(a, FMul(FromInt(10), FSub(b, a)))

\* std::lerp(a, b, t) with t = 10.0f * ft.count(), which is below 1: for a and
\* b on the same side of 0, x = a + t * (b - a), kept from passing b
Lerp(a, b) ==
    LET t == FMul(FromInt(10), ft)
        x == FAdd(a, FMul(t, FSub(b, a)))
    IN  IF (FLe(a, Zero) /\ FLe(Zero, b)) \/ (FLe(Zero, a) /\ FLe(b, Zero))
        THEN FAdd(FMul(t, b), FMul(FSub(One, t), a))
        ELSE IF FLt(a, b) THEN (IF FLt(x, b) THEN x ELSE b)
        ELSE (IF FLt(b, x) THEN x ELSE b)

\* the body of the zoom smoothing loop, lines 296-299
SmoothZoom(z, dz) == IF FLt(Epsilon, FAbs(FSub(z, dz))) THEN Lerp(z, dz) ELSE z

\* ------------------------------------------------------------ state
VARIABLES
    pc,            \* "boot", "frame", "poll", "smooth", "teardown", "exited"
    boot_i,        \* index of the next bootstrap step
    td_i,          \* index of the next teardown step
    exit_code,     \* -1 while the process runs, then 0 or 1
    alive,         \* the resources created and not yet released, in creation order
    released,      \* the resources released so far, in release order
    shown,         \* the window is visible
    failed,        \* the calls that have reported a failure
    zoom, desired_zoom, offset_x, offset_y,
    up, down, left, right, escape,
    quit, dirty,
    dt, acc,
    width, height,
    ev,            \* the SDL_Event last returned by SDL_PollEvent
    held,          \* the physical keys held down, as of the events drained so far
    drawable,      \* <<w, h>>: what SDL_GL_GetDrawableSize would report
    viewport,      \* <<w, h>>: the arguments of the last glViewport call
    vp_applied,    \* the last frame queried the drawable size and called glViewport
    resized,       \* a resize event was drained since the last frame was drawn
    esc_seen,      \* an Escape key press has been drained
    frames,        \* frames drawn (glDrawElements + SDL_GL_SwapWindow)
    nev,           \* events drained
    drained,       \* events drained since the last frame was drawn
    elapsed,       \* the sum of the frame durations measured so far
    steps,         \* iterations of the smoothing loop executed so far
    zoom0          \* zoom when the loop was entered

camera == <<zoom, desired_zoom, offset_x, offset_y>>
controls == <<up, down, left, right, escape>>
lifecycle == <<boot_i, td_i, exit_code, alive, released, shown, failed>>
timing == <<dt, acc>>
history == <<elapsed, steps, zoom0>>

vars == <<pc, boot_i, td_i, exit_code, alive, released, shown, failed,
          zoom, desired_zoom, offset_x, offset_y, up, down, left, right, escape,
          quit, dirty, dt, acc, width, height, ev, held, drawable, viewport,
          vp_applied, resized, esc_seen, frames, nev, drained, elapsed, steps, zoom0>>

\* ------------------------------------------------------------ bootstrap
Step(call, check, makes, frees) ==
    [call |-> call, check |-> check, makes |-> makes, frees |-> frees]

\* main, lines 102-174, in program order.  check: "fatal" (the failure of the
\* call ends the process), "ignored" (the result is dropped) or "none" (the
\* call reports nothing).
BootSteps == <<
    Step("SDL_Init",               "fatal",   "sdl",     "-"),
    Step("SDL_GL_SetAttribute",    "fatal",   "-",       "-"),
    Step("SDL_CreateWindow",       "fatal",   "win",     "-"),
    Step("SDL_GL_CreateContext",   "fatal",   "gl",      "-"),
    Step("SDL_GL_MakeCurrent",     "fatal",   "-",       "-"),
    Step("SDL_GL_SetSwapInterval", "ignored", "-",       "-"),
    Step("gladLoadGLLoader",       "fatal",   "-",       "-"),
    Step("glCreateShader(vert)",   "fatal",   "vert",    "-"),
    Step("compile(vert)",          "fatal",   "-",       "-"),
    Step("glCreateShader(frag)",   "fatal",   "frag",    "-"),
    Step("compile(frag)",          "fatal",   "-",       "-"),
    Step("glCreateProgram",        "fatal",   "prog",    "-"),
    Step("link(prog)",             "fatal",   "-",       "-"),
    Step("glDeleteShader(frag)",   "fatal",   "-",       "frag"),
    Step("glDeleteShader(vert)",   "fatal",   "-",       "vert"),
    Step("glCreateVertexArrays",   "fatal",   "vao",     "-"),
    Step("setup(vao)",             "fatal",   "-",       "-"),
    Step("glCreateBuffers",        "fatal",   "buffers", "-"),
    Step("upload(buffers)",        "fatal",   "-",       "-"),
    Step("SDL_ShowWindow",         "none",    "-",       "-"),
    Step("glClearColor",           "none",    "-",       "-"),
    Step("glEnable",               "fatal",   "-",       "-") >>

\* fault seeded for C4: the window is destroyed before its context
TeardownSteps_WindowFirst == <<
    Step("SDL_HideWindow",         "none",    "-",       "-"),
    Step("glDeleteBuffers",        "fatal",   "-",       "buffers"),
    Step("glDeleteVertexArrays",   "fatal",   "-",       "vao"),
    Step("glDeleteProgram",        "fatal",   "-",       "prog"),
    Step("SDL_DestroyWindow",      "none",    "-",       "win"),
    Step("SDL_GL_DeleteContext",   "none",    "-",       "gl"),
    Step("SDL_Quit",               "none",    "-",       "sdl") >>

\* fault seeded for C19: the program object is never deleted
TeardownSteps_LeakProgram == <<
    Step("SDL_HideWindow",         "none",    "-",       "-"),
    Step("glDeleteBuffers",        "fatal",   "-",       "buffers"),
    Step("glDeleteVertexArrays",   "fatal",   "-",       "vao"),
    Step("SDL_GL_DeleteContext",   "none",    "-",       "gl"),
    Step("SDL_DestroyWindow",      "none",    "-",       "win"),
    Step("SDL_Quit",               "none",    "-",       "sdl") >>

\* main, lines 303-310, in program order
TeardownSteps == <<
    Step("SDL_HideWindow",         "none",    "-",       "-"),
    Step("glDeleteBuffers",        "fatal",   "-",       "buffers"),
    Step("glDeleteVertexArrays",   "fatal",   "-",       "vao"),
    Step("glDeleteProgram",        "fatal",   "-",       "prog"),
    Step("SDL_GL_DeleteContext",   "none",    "-",       "gl"),
    Step("SDL_DestroyWindow",      "none",    "-",       "win"),
    Step("SDL_Quit",               "none",    "-",       "sdl") >>

Without(s, r) == SelectSeq(s, LAMBDA x : x # r)

\* fault seeded for C11: the window is created without SDL_WINDOW_HIDDEN
Effect_CreatedVisible(st) ==
    /\ alive' = (IF st.makes # "-" THEN Append(alive, st.makes)
                 ELSE IF st.frees # "-" THEN Without(alive, st.frees)
                 ELSE alive)
    /\ released' = (IF st.frees # "-" THEN Append(released, st.frees) ELSE released)
    /\ shown' = (IF st.call \in {"SDL_CreateWindow", "SDL_ShowWindow"} THEN TRUE
                 ELSE IF st.call = "SDL_HideWindow" THEN FALSE
                 ELSE shown)

\* the effect of a call that succeeded on the resources and the window
Effect(st) ==
    /\ alive' = (IF st.makes # "-" THEN Append(alive, st.makes)
                 ELSE IF st.frees # "-" THEN Without(alive, st.frees)
                 ELSE alive)
    /\ released' = (IF st.frees # "-" THEN Append(released, st.frees) ELSE released)
    /\ shown' = (IF st.call = "SDL_ShowWindow" THEN TRUE
                 ELSE IF st.call = "SDL_HideWindow" THEN FALSE
                 ELSE shown)

\* the resources a teardown call is handed or runs on: the window, the
\* current context for the gl calls, the library for SDL_Quit
Uses(call) ==
    CASE call = "SDL_HideWindow"       -> {"win"}
      [] call = "glDeleteBuffers"      -> {"gl", "buffers"}
      [] call = "glDeleteVertexArrays" -> {"gl", "vao"}
      [] call = "glDeleteProgram"      -> {"gl", "prog"}
      [] call = "SDL_GL_DeleteContext" -> {"gl"}
      [] call = "SDL_DestroyWindow"    -> {"win"}
      [] call = "SDL_Quit"             -> {"sdl"}

\* std::exit(1) / return 1
Fail ==
    /\ pc' = "exited"
    /\ exit_code' = 1

CONFIG_WINDOW_WIDTH == 1
CONFIG_WINDOW_HEIGHT == 1

\* the drawable sizes SDL_GL_GetDrawableSize may report: the configured size
\* and the size doubled by pixel-density scaling
DrawableSizes == { <<CONFIG_WINDOW_WIDTH, CONFIG_WINDOW_HEIGHT>>,
                   <<2 * CONFIG_WINDOW_WIDTH, 2 * CONFIG_WINDOW_HEIGHT>> }

\* the frame durations steady_clock may measure, in nanoseconds: half a fixed
\* step, and three and a half fixed steps
DtSet == {8333334, 58333333}

\* ------------------------------------------------------------ events
Event(type, scancode, button, wevent, y) ==
    [type |-> type, scancode |-> scancode, button |-> button, wevent |-> wevent, y |-> y]

NoEvent == Event("NONE", "-", 0, "-", 0)

Scancodes == {"ESCAPE", "W", "UP", "S", "DOWN", "A", "LEFT", "D", "RIGHT", "OTHER"}
KeyTypes == {"SDL_KEYDOWN", "SDL_KEYUP"}
Buttons == {1, 2, 3}
WindowEvents == {"RESIZED", "OTHER"}
WheelYs == {-1, 0, 1}

\* the scancodes of each case label group of the key switch, lines 225-243
KeysOf(flag) ==
    CASE flag = "escape" -> {"ESCAPE"}
      [] flag = "up"     -> {"W", "UP"}
      [] flag = "down"   -> {"S", "DOWN"}
      [] flag = "left"   -> {"A", "LEFT"}
      [] flag = "right"  -> {"D", "RIGHT"}

\* the value of a control flag after a key event: flag = ev.key.state == SDL_PRESSED
\* when the scancode is one of the flag's, unchanged otherwise
FlagAfter(flag, cur, e) ==
    IF e.scancode \in KeysOf(flag) THEN e.type = "SDL_KEYDOWN" ELSE cur

\* fault seeded for C5: the left button resets
ResetButton_Left == 2 - 1

\* ev.button.button == 2
ResetButton == 2

\* ------------------------------------------------------------ initial state
Init ==
    /\ pc = "boot" /\ boot_i = 1 /\ td_i = 1 /\ exit_code = -1
    /\ alive = <<>> /\ released = <<>> /\ shown = FALSE /\ failed = {}
    /\ zoom = One /\ desired_zoom = One /\ offset_x = Zero /\ offset_y = Zero
    /\ up = FALSE /\ down = FALSE /\ left = FALSE /\ right = FALSE /\ escape = FALSE
    /\ quit = FALSE /\ dirty = TRUE
    /\ dt = Zero /\ acc = Zero
    /\ width = CONFIG_WINDOW_WIDTH /\ height = CONFIG_WINDOW_HEIGHT
    /\ ev = NoEvent /\ held = {}
    /\ drawable = <<CONFIG_WINDOW_WIDTH, CONFIG_WINDOW_HEIGHT>>
    /\ viewport = <<CONFIG_WINDOW_WIDTH, CONFIG_WINDOW_HEIGHT>>
    /\ vp_applied = FALSE /\ resized = FALSE /\ esc_seen = FALSE
    /\ frames = 0 /\ nev = 0 /\ drained = 0
    /\ elapsed = 0 /\ steps = 0 /\ zoom0 = One

loopvars == <<zoom, desired_zoom, offset_x, offset_y, up, down, left, right, escape,
              quit, dirty, dt, acc, width, height, ev, held, drawable, viewport,
              vp_applied, resized, esc_seen, frames, nev, drained, elapsed, steps, zoom0>>

\* ------------------------------------------------------------ bootstrap actions
\* a bootstrap call succeeds; after the last one the frame loop is entered
BootOk ==
    /\ pc = "boot"
    /\ Effect(BootSteps[boot_i])
    /\ boot_i' = boot_i + 1
    /\ pc' = (IF boot_i = Len(BootSteps) THEN "frame" ELSE "boot")
    /\ UNCHANGED <<td_i, exit_code, failed>>
    /\ UNCHANGED loopvars

\* fault seeded for C9: the failure is reported and the bootstrap goes on
BootFail_Continue ==
    /\ pc = "boot"
    /\ BootSteps[boot_i].check = "fatal"
    /\ failed' = failed \cup {BootSteps[boot_i].call}
    /\ boot_i' = boot_i + 1
    /\ pc' = (IF boot_i = Len(BootSteps) THEN "frame" ELSE "boot")
    /\ UNCHANGED <<td_i, exit_code, alive, released, shown>>
    /\ UNCHANGED loopvars

\* a checked bootstrap call fails: sdlfail, SDL2_CHECK, GL_CHECK, GL_ERR_CHECK,
\* check_shader, check_program, or the return 1 after gladLoadGLLoader
BootFail ==
    /\ pc = "boot"
    /\ BootSteps[boot_i].check = "fatal"
    /\ Fail
    /\ failed' = failed \cup {BootSteps[boot_i].call}
    /\ UNCHANGED <<boot_i, td_i, alive, released, shown>>
    /\ UNCHANGED loopvars

\* SDL_GL_SetSwapInterval fails: the result is not looked at
BootIgnoredFail ==
    /\ pc = "boot"
    /\ BootSteps[boot_i].check = "ignored"
    /\ failed' = failed \cup {BootSteps[boot_i].call}
    /\ boot_i' = boot_i + 1
    /\ pc' = (IF boot_i = Len(BootSteps) THEN "frame" ELSE "boot")
    /\ UNCHANGED <<td_i, exit_code, alive, released, shown>>
    /\ UNCHANGED loopvars

\* ------------------------------------------------------------ frame loop
\* the value of dirty after the viewport block, lines 200-204: the block
\* does not assign it
DirtyAfterViewport(d) == d

\* acc += (dt = now - start), line 195
Accumulate(a, d) == FAdd(a, d)

\* one iteration up to the buffer swap, lines 195-211, every GL call succeeding
Frame ==
    /\ pc = "frame"
    /\ frames < MaxFrames
    /\ \E ns \in DtSet :
           /\ dt' = Seconds(ns)
           /\ acc' = Accumulate(acc, dt')
           /\ elapsed' = elapsed + ns
    /\ drained' = 0
    /\ UNCHANGED <<steps, zoom0>>
    /\ IF dirty
       THEN /\ width' = drawable[1]
            /\ height' = drawable[2]
            /\ viewport' = drawable
       ELSE UNCHANGED <<width, height, viewport>>
    /\ vp_applied' = dirty
    /\ dirty' = DirtyAfterViewport(dirty)
    /\ resized' = FALSE
    /\ frames' = frames + 1
    /\ pc' = "poll"
    /\ UNCHANGED lifecycle
    /\ UNCHANGED <<camera, controls, quit, ev, held, drawable, esc_seen, nev>>

\* a GL_ERR_CHECK of the iteration fails before the frame is drawn: one of
\* lines 197-199, before the viewport block; glViewport itself, line 203,
\* after SDL_GL_GetDrawableSize has written width and height; or one of
\* lines 205-210, after the viewport block
FrameFail ==
    /\ pc = "frame"
    /\ frames < MaxFrames
    /\ \E ns \in DtSet :
           /\ dt' = Seconds(ns)
           /\ acc' = Accumulate(acc, dt')
           /\ elapsed' = elapsed + ns
    /\ UNCHANGED <<drained, steps, zoom0>>
    /\ Fail
    /\ failed' = failed \cup {"frame"}
    /\ UNCHANGED <<boot_i, td_i, alive, released, shown>>
    /\ \E at \in {"clear", "viewport", "draw"} :
           /\ IF at # "clear" /\ dirty
              THEN width' = drawable[1] /\ height' = drawable[2]
              ELSE UNCHANGED <<width, height>>
           /\ IF at = "draw" /\ dirty
              THEN viewport' = drawable
              ELSE UNCHANGED viewport
           /\ vp_applied' = (IF at = "draw" THEN dirty ELSE vp_applied)
    /\ UNCHANGED <<camera, controls, quit, dirty, ev, held, drawable,
                   resized, esc_seen, frames, nev>>

\* what every event handler leaves alone
Polled(e) ==
    /\ pc = "poll"
    /\ nev < MaxEvents
    /\ ev' = e
    /\ nev' = nev + 1
    /\ drained' = drained + 1
    /\ UNCHANGED history
    /\ pc' = "poll"
    /\ UNCHANGED lifecycle
    /\ UNCHANGED <<timing, width, height, viewport, vp_applied, frames>>

\* case SDL_QUIT, lines 217-219
OnQuit ==
    /\ Polled(Event("SDL_QUIT", "-", 0, "-", 0))
    /\ quit' = TRUE
    /\ UNCHANGED <<camera, controls, dirty, held, drawable, resized, esc_seen>>

\* case SDL_KEYDOWN / SDL_KEYUP, lines 220-248.  A key-up event is only
\* delivered for a key that is down; a key-down event may repeat.
OnKey ==
    \E t \in KeyTypes, k \in Scancodes :
        LET e == Event(t, k, 0, "-", 0) IN
        /\ t = "SDL_KEYUP" => k \in held
        /\ Polled(e)
        /\ held' = (IF t = "SDL_KEYDOWN" THEN held \cup {k} ELSE held \ {k})
        /\ escape' = FlagAfter("escape", escape, e)
        /\ up' = FlagAfter("up", up, e)
        /\ down' = FlagAfter("down", down, e)
        /\ left' = FlagAfter("left", left, e)
        /\ right' = FlagAfter("right", right, e)
        /\ esc_seen' = (esc_seen \/ (t = "SDL_KEYDOWN" /\ k = "ESCAPE"))
        /\ UNCHANGED <<camera, quit, dirty, drawable, resized>>

\* case SDL_MOUSEBUTTONUP, lines 249-257
OnMouseButtonUp ==
    \E b \in Buttons :
        /\ Polled(Event("SDL_MOUSEBUTTONUP", "-", b, "-", 0))
        /\ IF b = ResetButton
           THEN /\ offset_x' = Zero
                /\ offset_y' = Zero
                /\ zoom' = One
                /\ desired_zoom' = One
           ELSE UNCHANGED camera
        /\ UNCHANGED <<controls, quit, dirty, held, drawable, resized, esc_seen>>

\* case SDL_WINDOWEVENT, lines 259-264; a resize leaves the drawable at some size
OnWindowEvent ==
    \E w \in WindowEvents :
        /\ Polled(Event("SDL_WINDOWEVENT", "-", 0, w, 0))
        /\ IF w = "RESIZED"
           THEN /\ dirty' = TRUE
                /\ resized' = TRUE
                /\ \E s \in DrawableSizes : drawable' = s
           ELSE UNCHANGED <<dirty, resized, drawable>>
        /\ UNCHANGED <<camera, controls, quit, held, esc_seen>>

\* fault seeded for C20: the target is scaled from the previous target
OnMouseWheel_Accumulating ==
    \E y \in WheelYs :
        /\ Polled(Event("SDL_MOUSEWHEEL", "-", 0, "-", y))
        /\ desired_zoom' = WheelTarget(y, desired_zoom)
        /\ UNCHANGED <<zoom, offset_x, offset_y>>
        /\ UNCHANGED <<controls, quit, dirty, held, drawable, resized, esc_seen>>

\* case SDL_MOUSEWHEEL, lines 266-269
OnMouseWheel ==
    \E y \in WheelYs :
        /\ Polled(Event("SDL_MOUSEWHEEL", "-", 0, "-", y))
        /\ desired_zoom' = WheelTarget(y, zoom)
        /\ UNCHANGED <<zoom, offset_x, offset_y>>
        /\ UNCHANGED <<controls, quit, dirty, held, drawable, resized, esc_seen>>

\* default, lines 270-271
OnOtherEvent ==
    /\ Polled(Event("OTHER", "-", 0, "-", 0))
    /\ UNCHANGED <<camera, controls, quit, dirty, held, drawable, resized, esc_seen>>

\* fault seeded for C7: the upward pan is applied whether or not up is set
PanY_Unguarded(oy, u, dn, z, d) ==
    LET o1 == Clamp(FAdd(oy, PanDelta(z, d)), FNeg(MaxOffset), MaxOffset)
    IN  IF dn THEN Clamp(FSub(o1, PanDelta(z, d)), FNeg(MaxOffset), MaxOffset) ELSE o1

\* lines 278-285: offset_y after the up and down blocks
PanY(oy, u, dn, z, d) ==
    LET o1 == IF u THEN Clamp(FAdd(oy, PanDelta(z, d)), FNeg(MaxOffset), MaxOffset) ELSE oy
    IN  IF dn THEN Clamp(FSub(o1, PanDelta(z, d)), FNeg(MaxOffset), MaxOffset) ELSE o1

\* lines 286-293: offset_x after the left and right blocks
PanX(ox, l, r, z, d) ==
    LET o1 == IF l THEN Clamp(FSub(ox, PanDelta(z, d)), FNeg(MaxOffset), MaxOffset) ELSE ox
    IN  IF r THEN Clamp(FAdd(o1, PanDelta(z, d)), FNeg(MaxOffset), MaxOffset) ELSE o1

\* fault seeded for C16: the smoothing loop runs while acc > 0
AfterSmooth_AnyTime(a, q) == IF FLt(Zero, a) THEN "smooth" ELSE IF q THEN "teardown" ELSE "frame"

\* fault seeded for C15: the smoothing loop runs while acc > ft
AfterSmooth_Strict(a, q) == IF FLt(ft, a) THEN "smooth" ELSE IF q THEN "teardown" ELSE "frame"

\* fault seeded for C13: the loop condition does not look at quit
AfterSmooth_IgnoreQuit(a, q) == IF FLe(ft, a) THEN "smooth" ELSE "frame"

\* where control goes once acc is known: the smoothing loop while acc >= ft,
\* then the loop condition while (!quit) of line 193
AfterSmooth(a, q) == IF FLe(ft, a) THEN "smooth" ELSE IF q THEN "teardown" ELSE "frame"

\* SDL_PollEvent returns 0 and the drain ends; then lines 274-293: escape
\* requests quit, and pan integration
EndDrain ==
    /\ pc = "poll"
    /\ quit' = (quit \/ escape)
    /\ offset_y' = PanY(offset_y, up, down, zoom, dt)
    /\ offset_x' = PanX(offset_x, left, right, zoom, dt)
    /\ pc' = AfterSmooth(acc, quit')
    /\ UNCHANGED lifecycle
    /\ UNCHANGED <<zoom, desired_zoom, controls, dirty, timing, width, height, ev, held,
                   drawable, viewport, vp_applied, resized, esc_seen, frames, nev,
                   drained, history>>

\* one iteration of while (acc >= ft), lines 294-301
SmoothStep ==
    /\ pc = "smooth"
    /\ zoom' = SmoothZoom(zoom, desired_zoom)
    /\ acc' = FSub(acc, ft)
    /\ steps' = steps + 1
    /\ pc' = AfterSmooth(acc', quit)
    /\ UNCHANGED <<dt, drained, elapsed, zoom0>>
    /\ UNCHANGED lifecycle
    /\ UNCHANGED <<desired_zoom, offset_x, offset_y, controls, quit, dirty, width, height,
                   ev, held, drawable, viewport, vp_applied, resized, esc_seen, frames, nev>>

\* ------------------------------------------------------------ teardown
TeardownOk ==
    /\ pc = "teardown"
    /\ td_i <= Len(TeardownSteps)
    /\ Effect(TeardownSteps[td_i])
    /\ td_i' = td_i + 1
    /\ UNCHANGED <<pc, boot_i, exit_code, failed>>
    /\ UNCHANGED loopvars

\* a GL_ERR_CHECK of the teardown fails
TeardownFail ==
    /\ pc = "teardown"
    /\ td_i <= Len(TeardownSteps)
    /\ TeardownSteps[td_i].check = "fatal"
    /\ Fail
    /\ failed' = failed \cup {TeardownSteps[td_i].call}
    /\ UNCHANGED <<boot_i, td_i, alive, released, shown>>
    /\ UNCHANGED loopvars

\* return 0, line 310
Return0 ==
    /\ pc = "teardown"
    /\ td_i > Len(TeardownSteps)
    /\ pc' = "exited"
    /\ exit_code' = 0
    /\ UNCHANGED <<boot_i, td_i, alive, released, shown, failed>>
    /\ UNCHANGED loopvars

\* ------------------------------------------------------------ specifications
Next ==
    \/ BootOk \/ BootFail \/ BootIgnoredFail
    \/ Frame \/ FrameFail
    \/ OnQuit \/ OnKey \/ OnMouseButtonUp \/ OnWindowEvent \/ OnMouseWheel
    \/ OnOtherEvent \/ EndDrain \/ SmoothStep
    \/ TeardownOk \/ TeardownFail \/ Return0

Spec == Init /\ [][Next]_vars

\* the one thread of main runs on: every call returns, so a step that can be
\* taken is taken
SpecFair == Init /\ [][Next]_vars /\ WF_vars(Next)

\* ------------------------------------------------------------ the loop alone
\* the resources alive and released after the first i bootstrap steps succeeded
RECURSIVE AliveAfter(_)
AliveAfter(i) ==
    IF i = 0 THEN <<>>
    ELSE LET st == BootSteps[i]
             a  == AliveAfter(i - 1)
         IN  IF st.makes # "-" THEN Append(a, st.makes)
             ELSE IF st.frees # "-" THEN Without(a, st.frees)
             ELSE a

RECURSIVE ReleasedAfter(_)
ReleasedAfter(i) ==
    IF i = 0 THEN <<>>
    ELSE LET st == BootSteps[i]
             r  == ReleasedAfter(i - 1)
         IN  IF st.frees # "-" THEN Append(r, st.frees) ELSE r

\* the zoom at which the ease toward the upper clamp comes to rest: two
\* binary32 steps below 100
NearMaxZoom == <<(100 * (2 ^ 17)) - 2, -17>>

\* <<zoom, desired_zoom>> of loop states: the initial camera, the camera eased
\* up to the upper clamp, a camera easing down close to the lower clamp, and
\* a mid-range zoom whose target a wheel event with y = 0 has sent to the
\* lower clamp
ZoomSamples == { <<One, One>>,
                 <<NearMaxZoom, MaxZoom>>,
                 <<FMul(FromInt(3), MinZoom), MinZoom>>,
                 <<FromInt(50), MinZoom>>,
                 <<Mul1025(One), Mul1025(Mul1025(One))>> }

\* <<offset_x, offset_y>> of loop states: the origin, both clamps, and a pan
\* half a unit short of a clamp
OffsetSamples == { <<Zero, Zero>>,
                   <<MaxOffset, FNeg(MaxOffset)>>,
                   <<FNeg(Dec(31, 2)), Dec(31, 2)>> }

\* keys held when the frame starts
HeldSamples == { {"W"}, {"DOWN"}, {"A"}, {"RIGHT"} }

\* the loop at line 193 after a first frame, from a sampled camera with no key
\* held, or from the initial camera with one direction key held
InitLoop ==
    /\ pc = "frame" /\ boot_i = Len(BootSteps) + 1 /\ td_i = 1 /\ exit_code = -1
    /\ alive = AliveAfter(Len(BootSteps))
    /\ released = ReleasedAfter(Len(BootSteps))
    /\ shown = TRUE /\ failed = {}
    /\ \/ /\ \E z \in ZoomSamples : zoom = z[1] /\ desired_zoom = z[2]
          /\ \E o \in OffsetSamples : offset_x = o[1] /\ offset_y = o[2]
          /\ held = {}
       \/ /\ zoom = One /\ desired_zoom = One /\ offset_x = Zero /\ offset_y = Zero
          /\ held \in HeldSamples
    /\ up = (held \cap KeysOf("up") # {})
    /\ down = (held \cap KeysOf("down") # {})
    /\ left = (held \cap KeysOf("left") # {})
    /\ right = (held \cap KeysOf("right") # {})
    /\ escape = FALSE
    /\ quit = FALSE /\ dirty = TRUE
    /\ dt = Seconds(8333334) /\ acc = Seconds(8333334)
    /\ width = CONFIG_WINDOW_WIDTH /\ height = CONFIG_WINDOW_HEIGHT
    /\ ev = NoEvent
    /\ drawable = <<CONFIG_WINDOW_WIDTH, CONFIG_WINDOW_HEIGHT>>
    /\ viewport = <<CONFIG_WINDOW_WIDTH, CONFIG_WINDOW_HEIGHT>>
    /\ vp_applied = TRUE /\ resized = FALSE /\ esc_seen = FALSE
    /\ frames = 1 /\ nev = 0 /\ drained = 0
    /\ elapsed = 0 /\ steps = 0 /\ zoom0 = zoom

NextLoop ==
    \/ Frame \/ FrameFail
    \/ OnQuit \/ OnKey \/ OnMouseButtonUp \/ OnWindowEvent \/ OnMouseWheel
    \/ OnOtherEvent \/ EndDrain \/ SmoothStep

SpecLoop == InitLoop /\ [][NextLoop]_vars

\* ------------------------------------------------------------ the idle loop
\* the loop entered at line 193 with a sampled camera, no key held and an
\* empty event queue from then on
InitIdle ==
    /\ pc = "frame" /\ boot_i = Len(BootSteps) + 1 /\ td_i = 1 /\ exit_code = -1
    /\ alive = AliveAfter(Len(BootSteps))
    /\ released = ReleasedAfter(Len(BootSteps))
    /\ shown = TRUE /\ failed = {}
    /\ \E z \in ZoomSamples : zoom = z[1] /\ desired_zoom = z[2]
    /\ \E o \in OffsetSamples : offset_x = o[1] /\ offset_y = o[2]
    /\ held = {}
    /\ up = FALSE /\ down = FALSE /\ left = FALSE /\ right = FALSE /\ escape = FALSE
    /\ quit = FALSE /\ dirty = TRUE
    /\ dt = Zero /\ acc = Zero
    /\ width = CONFIG_WINDOW_WIDTH /\ height = CONFIG_WINDOW_HEIGHT
    /\ ev = NoEvent
    /\ drawable = <<CONFIG_WINDOW_WIDTH, CONFIG_WINDOW_HEIGHT>>
    /\ viewport = <<CONFIG_WINDOW_WIDTH, CONFIG_WINDOW_HEIGHT>>
    /\ vp_applied = TRUE /\ resized = FALSE /\ esc_seen = FALSE
    /\ frames = 0 /\ nev = 0 /\ drained = 0
    /\ elapsed = 0 /\ steps = 0 /\ zoom0 = zoom

NextIdle == Frame \/ EndDrain \/ SmoothStep

SpecIdle == InitIdle /\ [][NextIdle]_vars

\* ------------------------------------------------------------ properties
IsPrefix(s, t) == Len(s) <= Len(t) /\ \A i \in 1..Len(s) : s[i] = t[i]

Reverse(s) == [ i \in 1..Len(s) |-> s[Len(s) + 1 - i] ]

\* a step that drains one event of the given type
Drains(type) == pc = "poll" /\ nev' = nev + 1 /\ ev'.type = type

NoDirectionHeld == ~up /\ ~down /\ ~left /\ ~right

\* C1: in every reachable state of the frame loop, zoom and desired_zoom lie in
\* [1e-5, 100] and offset_x and offset_y lie in [-16, 16].
C1_CameraInRange ==
    /\ FLe(MinZoom, zoom) /\ FLe(zoom, MaxZoom)
    /\ FLe(MinZoom, desired_zoom) /\ FLe(desired_zoom, MaxZoom)
    /\ FLe(FNeg(MaxOffset), offset_x) /\ FLe(offset_x, MaxOffset)
    /\ FLe(FNeg(MaxOffset), offset_y) /\ FLe(offset_y, MaxOffset)

\* a wheel event whose target passed 100 and a pan that passed 16 have both
\* been clamped
C1_Witness ==
    /\ pc # "poll"
    /\ ev.type = "SDL_MOUSEWHEEL" /\ ev.y < 0
    /\ FLt(MaxZoom, Mul1025(zoom)) /\ desired_zoom = MaxZoom
    /\ right /\ ~left /\ FLt(Zero, PanDelta(zoom, dt)) /\ offset_x = MaxOffset

\* C2: a frame drawn after a resize event was drained applies the viewport
\* once, from the freshly queried drawable size, and clears the dirty flag; a
\* later frame not preceded by a resize event queries nothing and applies no
\* viewport.
C2_ViewportOncePerResize ==
    [][ (pc = "frame" /\ pc' = "poll" /\ frames >= 1) =>
            IF resized
            THEN /\ vp_applied'
                 /\ viewport' = drawable /\ <<width', height'>> = drawable
                 /\ ~dirty'
            ELSE /\ ~vp_applied'
                 /\ UNCHANGED <<width, height, viewport>> ]_vars

\* C3: once an Escape key press has been drained, the end of that drain leaves
\* quit requested, so the loop is left and no further frame is drawn.
C3_EscapePressQuits ==
    (esc_seen /\ pc # "poll") => (quit /\ pc # "frame")

\* the resources C4 lists
Listed == {"buffers", "vao", "prog", "gl", "win", "sdl"}

\* the listed resources in the order the bootstrap creates them
CreationOrder ==
    SelectSeq([ i \in 1..Len(BootSteps) |-> BootSteps[i].makes ], LAMBDA r : r \in Listed)

ListedReleases == SelectSeq(released, LAMBDA r : r \in Listed)

\* C4: the listed resources are released in the reverse of their creation
\* order, only after the loop has been left with quit requested and the window
\* has been hidden, and a process that exits with code 0 has released them all.
C4_TeardownOrder ==
    /\ CreationOrder = <<"sdl", "win", "gl", "prog", "vao", "buffers">>
    /\ IsPrefix(ListedReleases, Reverse(CreationOrder))
    /\ ListedReleases # <<>> => (pc \in {"teardown", "exited"} /\ quit /\ ~shown)
    /\ pc \in {"frame", "poll", "smooth"} => shown
    /\ exit_code = 0 =>
           /\ ListedReleases = <<"buffers", "vao", "prog", "gl", "win", "sdl">>
           /\ alive = <<>>
           /\ ~shown

\* the process has returned 0 after a frame was drawn and everything released
C4_Witness ==
    /\ pc = "exited" /\ exit_code = 0 /\ frames >= 1
    /\ released = <<"frag", "vert", "buffers", "vao", "prog", "gl", "win", "sdl">>

\* C5: draining a middle-button release sets the camera to zoom = 1,
\* desired_zoom = 1, offsets = 0 whatever it was; a release of another button
\* leaves the camera unchanged; neither changes the control flags, quit or dirty.
C5_MiddleReleaseResets ==
    [][ Drains("SDL_MOUSEBUTTONUP") =>
            /\ ev'.button = 2 =>
                   (zoom' = One /\ desired_zoom' = One /\ offset_x' = Zero /\ offset_y' = Zero)
            /\ ev'.button # 2 => UNCHANGED camera
            /\ UNCHANGED <<controls, quit, dirty>> ]_vars

\* a middle-button release has been drained with a direction key held, and the
\* camera is the default one
C5_Witness ==
    /\ ev.type = "SDL_MOUSEBUTTONUP" /\ ev.button = 2
    /\ nev = 2 /\ pc = "poll"
    /\ camera = <<One, One, Zero, Zero>>
    /\ ~NoDirectionHeld

\* x and y are the same number to six decimal places
Near(x, y) == FLe(FAbs(FSub(x, y)), Dec(1, 1000000))

\* C6: draining a wheel event with y > 0 sets desired_zoom to
\* clamp(zoom / 1.025), with y < 0 to clamp(zoom * 1.025); from zoom = 1 these
\* are 1/1.025 and 1.025; zoom and the offsets are unchanged.
C6_WheelSetsTarget ==
    [][ Drains("SDL_MOUSEWHEEL") =>
            /\ ev'.y > 0 => desired_zoom' = Clamp(Div1025(zoom), MinZoom, MaxZoom)
            /\ ev'.y < 0 => desired_zoom' = Clamp(Mul1025(zoom), MinZoom, MaxZoom)
            /\ (ev'.y > 0 /\ zoom = One) => Near(desired_zoom', Dec(1000, 1025))
            /\ (ev'.y < 0 /\ zoom = One) => Near(desired_zoom', Dec(1025, 1000))
            /\ UNCHANGED <<zoom, offset_x, offset_y>> ]_vars

\* a scroll up from zoom = 1 has left the target below the zoom
C6_Witness ==
    /\ ev.type = "SDL_MOUSEWHEEL" /\ ev.y > 0 /\ pc = "poll"
    /\ zoom = One /\ desired_zoom = FDiv(One, Dec(1025, 1000)) /\ FLt(desired_zoom, zoom)

\* C7: from a state in which no directional flag is set, every step other than
\* the drain of a mouse-button release leaves offset_x and offset_y unchanged.
C7_NoKeyNoPan ==
    [][ (NoDirectionHeld /\ ~Drains("SDL_MOUSEBUTTONUP")) =>
            UNCHANGED <<offset_x, offset_y>> ]_vars

\* a frame of three and a half fixed steps has been updated at zoom 50 with no
\* flag set, and the sampled offsets are still there
C7_Witness ==
    /\ pc = "smooth" /\ NoDirectionHeld /\ held = {}
    /\ FLt(FMul(FromInt(2), ft), dt) /\ zoom = FromInt(50) /\ FLt(Zero, PanDelta(zoom, dt))
    /\ offset_x = FNeg(Dec(31, 2)) /\ offset_y = Dec(31, 2)

\* C8: a zoom smoothing step leaves desired_zoom alone and moves zoom no
\* farther from it, without passing it.
C8_SmoothNoOvershoot ==
    [][ pc = "smooth" =>
            /\ desired_zoom' = desired_zoom
            /\ FLe(FAbs(FSub(zoom', desired_zoom)), FAbs(FSub(zoom, desired_zoom)))
            /\ FLe(zoom, desired_zoom) => (FLe(zoom, zoom') /\ FLe(zoom', desired_zoom))
            /\ FLe(desired_zoom, zoom) => (FLe(desired_zoom, zoom') /\ FLe(zoom', zoom)) ]_vars

\* smoothing steps have eased zoom from 50 toward the target 1e-5
C8_Witness ==
    /\ desired_zoom = MinZoom /\ nev = 0
    /\ FLt(FromInt(25), zoom) /\ FLt(zoom, FromInt(40))

\* C9: a bootstrap call other than SDL_GL_SetSwapInterval that failed ended the
\* process with exit code 1 at that step: nothing later was created and no
\* frame was drawn; a frame is drawn only after every bootstrap step; exit code
\* 0 is the return after a complete teardown with no fatal failure.
C9_FailureExits ==
    /\ \A i \in 1..Len(BootSteps) :
           (BootSteps[i].call \in failed /\ BootSteps[i].call # "SDL_GL_SetSwapInterval") =>
               /\ pc = "exited" /\ exit_code = 1
               /\ boot_i = i /\ alive = AliveAfter(i - 1)
               /\ frames = 0
    /\ pc \in {"frame", "poll", "smooth", "teardown"} =>
           (boot_i = Len(BootSteps) + 1 /\ exit_code = -1)
    /\ frames > 0 => boot_i = Len(BootSteps) + 1
    /\ exit_code = 0 <=>
           (pc = "exited" /\ quit /\ td_i = Len(TeardownSteps) + 1
                /\ failed \subseteq {"SDL_GL_SetSwapInterval"})
    /\ exit_code \in {-1, 0, 1} /\ (pc = "exited" <=> exit_code # -1)

\* vertical sync failed, the bootstrap went on, and the link failure ended it
C9_Witness ==
    /\ pc = "exited" /\ exit_code = 1 /\ frames = 0
    /\ failed = {"SDL_GL_SetSwapInterval", "link(prog)"}
    /\ alive = <<"sdl", "win", "gl", "vert", "frag", "prog">>

\* C10: after event processing each control flag is set whenever one of its
\* two keys is held.
C10_EitherKeyHolds ==
    pc # "poll" =>
        /\ (held \cap {"W", "UP"} # {}) => up
        /\ (held \cap {"S", "DOWN"} # {}) => down
        /\ (held \cap {"A", "LEFT"} # {}) => left
        /\ (held \cap {"D", "RIGHT"} # {}) => right

\* the position of a call in the bootstrap
BootIndex(call) == CHOOSE i \in 1..Len(BootSteps) : BootSteps[i].call = call

InSeq(x, s) == \E i \in 1..Len(s) : s[i] = x

\* C11: the window is hidden from its creation until SDL_ShowWindow, which
\* runs only after the program was linked and the vertex array and both
\* buffers were created, set up and uploaded; the window is shown while frames
\* are drawn; a bootstrap call up to the buffer set-up that fails ends the
\* process with the window never shown.
C11_ShownAfterGpuObjects ==
    /\ (pc = "boot" /\ boot_i <= BootIndex("SDL_ShowWindow")) => ~shown
    /\ shown =>
           /\ boot_i > BootIndex("SDL_ShowWindow")
           /\ BootIndex("SDL_ShowWindow") > BootIndex("link(prog)")
           /\ BootIndex("SDL_ShowWindow") > BootIndex("setup(vao)")
           /\ BootIndex("SDL_ShowWindow") > BootIndex("upload(buffers)")
           /\ InSeq("win", alive) /\ InSeq("prog", alive)
           /\ InSeq("vao", alive) /\ InSeq("buffers", alive)
    /\ pc \in {"frame", "poll", "smooth"} => shown
    /\ (pc = "exited" /\ boot_i < BootIndex("SDL_ShowWindow")) => ~shown

\* the first frame has been drawn with the window shown and the GPU objects alive
C11_Witness ==
    /\ pc = "poll" /\ frames = 1 /\ nev = 0 /\ shown
    /\ alive = <<"sdl", "win", "gl", "prog", "vao", "buffers">>

\* C11 as stated: whichever bootstrap call fails, the process ends with the
\* window never shown.
C11_NeverShownOnBootFailure ==
    (pc = "exited" /\ exit_code = 1 /\ boot_i <= Len(BootSteps)) => ~shown

\* C12: once a drain has ended with quit requested, the loop is left with no
\* pan integration and no smoothing step: zoom, the offsets and the
\* accumulator keep the values they had when the last event was drained.
C12_QuitSkipsUpdate ==
    [][ ((pc = "poll" /\ pc' # "poll" /\ quit') \/ (pc = "smooth" /\ quit)) =>
            UNCHANGED <<zoom, offset_x, offset_y, acc>> ]_vars

\* the teardown calls whose failure ends the process
FatalTeardownCalls ==
    { TeardownSteps[i].call : i \in { j \in 1..Len(TeardownSteps) :
                                          TeardownSteps[j].check = "fatal" } }

\* C13: draining SDL_QUIT sets quit and the drain goes on; no step clears
\* quit; the loop is left only at the end of an iteration, after the drain and
\* the smoothing loop, with quit set; no frame is drawn once quit is set; and
\* from then on the process terminates: with exit code 0 after the whole
\* teardown, or with exit code 1 at a teardown call that failed.
C13_QuitSticks ==
    /\ [][ Drains("SDL_QUIT") => (quit' /\ pc' = "poll") ]_vars
    /\ [][ quit => quit' ]_vars
    /\ [][ (pc # "teardown" /\ pc' = "teardown") =>
               (pc \in {"poll", "smooth"} /\ quit' /\ FLt(acc', ft)) ]_vars
    /\ [][ quit => frames' = frames ]_vars
    /\ [](pc = "frame" => ~quit)
    /\ []((pc = "exited" /\ quit) =>
              \/ exit_code = 0 /\ td_i = Len(TeardownSteps) + 1 /\ alive = <<>>
              \/ exit_code = 1 /\ failed \cap FatalTeardownCalls # {})
    /\ quit ~> (pc = "exited")

\* SDL_QUIT was drained, a key press was drained after it, and the process
\* returned 0 after the teardown
C13_Witness ==
    /\ pc = "exited" /\ exit_code = 0 /\ quit /\ ~esc_seen
    /\ nev = 2 /\ ev.type = "SDL_KEYDOWN" /\ ev.scancode = "W" /\ up
    /\ alive = <<>>

\* C13 as stated: once quit is requested by SDL_QUIT the process ends with the
\* teardown executed.
C13_QuitAlwaysTearsDown ==
    (pc = "exited" /\ quit) => (exit_code = 0 /\ td_i = Len(TeardownSteps) + 1)

\* zoom after n iterations of the smoothing loop toward dz
RECURSIVE SmoothN(_, _, _)
SmoothN(z, dz, n) == IF n = 0 THEN z ELSE SmoothN(SmoothZoom(z, dz), dz, n - 1)

\* the whole fixed steps of 1/60 s in ns nanoseconds
WholeSteps(ns) == (3 * ns) \div 50000000

\* C14: with no events and a fixed desired_zoom, the number of smoothing steps
\* executed and the zoom reached at the end of an iteration depend only on the
\* initial zoom, the initial accumulator and the total time elapsed, not on
\* how the frames divide that time: the steps are the whole fixed steps
\* elapsed and zoom is the initial zoom eased that many times.
C14_RateIndependent ==
    pc = "frame" =>
        /\ steps = WholeSteps(elapsed)
        /\ zoom = SmoothN(zoom0, desired_zoom, WholeSteps(elapsed))

\* C15: a step that lowers the accumulator lowers it by exactly one fixed
\* step; the accumulator is never negative; and when an iteration of the frame
\* loop has ended, 0 <= acc < ft, also after a frame of several fixed steps.
C15_AccumulatorDrained ==
    /\ [][ FLt(acc', acc) => acc' = FSub(acc, ft) ]_vars
    /\ [](FLe(Zero, acc))
    /\ []((pc \in {"frame", "teardown"} /\ frames >= 1) => (FLe(Zero, acc) /\ FLt(acc, ft)))

\* a first frame of three and a half fixed steps has been drained in three steps,
\* leaving half a fixed step
C15_Witness ==
    /\ pc = "frame" /\ frames = 1 /\ dt = Seconds(58333333)
    /\ steps = 3 /\ acc = FSub(FSub(FSub(dt, ft), ft), ft)
    /\ FLt(Zero, acc) /\ FLt(acc, ft)

\* |z - dz| > 1e-5, as binary32 computes it
Apart(z, dz) == FLt(Epsilon, FAbs(FSub(z, dz)))

\* C16: an iteration of the smoothing loop runs only with a whole fixed step
\* in the accumulator and takes exactly one fixed step from it, whether or not
\* it corrects zoom; it corrects zoom, by std::lerp toward desired_zoom with
\* factor 10 * ft, exactly when |zoom - desired_zoom| > 1e-5; time leaves the
\* accumulator in no other step, and zoom changes in no other step than a
\* correction or a reset.
C16_StepPerIteration ==
    /\ [][ pc = "smooth" =>
               /\ FLe(ft, acc) /\ acc' = FSub(acc, ft)
               /\ desired_zoom' = desired_zoom
               /\ Apart(zoom, desired_zoom) => zoom' = Lerp(zoom, desired_zoom)
               /\ ~Apart(zoom, desired_zoom) => zoom' = zoom ]_vars
    /\ [][ FLt(acc', acc) => pc = "smooth" ]_vars
    /\ [][ zoom' # zoom =>
               \/ pc = "smooth" /\ Apart(zoom, desired_zoom) /\ acc' = FSub(acc, ft)
               \/ Drains("SDL_MOUSEBUTTONUP") ]_vars

\* a scroll up was drained in a first frame of three and a half fixed steps;
\* three iterations have each corrected zoom toward 1/1.025 and taken a
\* fixed step, leaving half a fixed step
C16_Witness ==
    /\ pc = "frame" /\ frames = 1 /\ steps = 3
    /\ acc = FSub(FSub(FSub(dt, ft), ft), ft)
    /\ ev.type = "SDL_MOUSEWHEEL" /\ ev.y > 0 /\ nev = 1
    /\ desired_zoom = Div1025(One)
    /\ zoom = SmoothN(One, desired_zoom, 3) /\ FLt(zoom, One)

\* C16 as stated: no time leaves the accumulator in a step that makes no zoom
\* correction.
C16_NoCorrectionNoTime ==
    [][ FLt(acc', acc) => (pc = "smooth" /\ Apart(zoom, desired_zoom)) ]_vars

\* C17: with desired_zoom left alone and frames that keep adding time, zoom
\* comes within 1e-5 of desired_zoom and then stays.  An iteration of the
\* smoothing loop is a function of zoom and desired_zoom alone, so one that
\* leaves zoom where it is does so in every later iteration: the claim
\* requires that such an iteration finds zoom within 1e-5 of desired_zoom.
C17_EaseReachesTarget ==
    [][ (pc = "smooth" /\ zoom' = zoom) => ~Apart(zoom, desired_zoom) ]_vars

\* C18: draining a wheel event, whatever its y, leaves desired_zoom at
\* clamp(zoom / 1.025) or at clamp(zoom * 1.025).
C18_WheelAlwaysScales ==
    [][ Drains("SDL_MOUSEWHEEL") =>
            \/ desired_zoom' = Clamp(Div1025(zoom), MinZoom, MaxZoom)
            \/ desired_zoom' = Clamp(Mul1025(zoom), MinZoom, MaxZoom) ]_vars

SeqSet(s) == { s[i] : i \in 1..Len(s) }

Count(r, s) == Cardinality({ i \in 1..Len(s) : s[i] = r })

\* C19: no resource is released twice or is both alive and released; the
\* frame loop runs with every listed resource alive and a teardown call is
\* made with the resources it uses alive; a process that returns 0 has
\* released every resource it created, each exactly once; a process that
\* exits with code 1 exits at the failing call and releases nothing more, so
\* what that call found alive, the SDL library at least, stays unreleased.
C19_ReleasedOnceOnReturn ==
    /\ [](\A r \in SeqSet(released) : Count(r, released) = 1)
    /\ [](SeqSet(alive) \cap SeqSet(released) = {})
    /\ [](pc \in {"frame", "poll", "smooth"} => Listed \subseteq SeqSet(alive))
    /\ [][ (pc = "teardown" /\ td_i' = td_i + 1) =>
               Uses(TeardownSteps[td_i].call) \subseteq SeqSet(alive) ]_vars
    /\ [](exit_code = 0 =>
              /\ alive = <<>>
              /\ SeqSet(released) = Listed \cup {"vert", "frag"})
    /\ [][ (pc # "exited" /\ pc' = "exited" /\ exit_code' = 1) =>
               UNCHANGED <<alive, released>> ]_vars
    /\ []((exit_code = 1 /\ "SDL_Init" \notin failed) =>
              InSeq("sdl", alive))

\* two frames were drawn and the process returned 0 with all eight resources
\* released
C19_Witness ==
    /\ pc = "exited" /\ exit_code = 0 /\ frames = 2 /\ failed = {}
    /\ alive = <<>> /\ Len(released) = 8 /\ Cardinality(SeqSet(released)) = 8

\* C19 as stated: whenever the process has exited, everything created has
\* been released.
C19_AllReleasedOnExit ==
    pc = "exited" => alive = <<>>

\* C20: a wheel event drained right after an equal wheel event of the same
\* drain leaves desired_zoom as it is; every wheel event sets desired_zoom
\* from its own y and the current zoom alone, whatever the target was; and
\* within a drain zoom is changed by the reset only and desired_zoom by wheel
\* events and the reset only, so the target a drain leaves is that of its
\* last wheel event, taken at zoom or at the reset zoom.
C20_WheelsDoNotAccumulate ==
    /\ [][ (Drains("SDL_MOUSEWHEEL") /\ drained >= 1
                /\ ev.type = "SDL_MOUSEWHEEL" /\ ev'.y = ev.y) =>
               desired_zoom' = desired_zoom ]_vars
    /\ [][ Drains("SDL_MOUSEWHEEL") =>
               (desired_zoom' = WheelTarget(ev'.y, zoom) /\ zoom' = zoom) ]_vars
    /\ [][ (pc = "poll" /\ zoom' # zoom) =>
               /\ Drains("SDL_MOUSEBUTTONUP") /\ ev'.button = 2
               /\ zoom' = One /\ desired_zoom' = One ]_vars
    /\ [][ (pc = "poll" /\ desired_zoom' # desired_zoom) =>
               (Drains("SDL_MOUSEWHEEL") \/ Drains("SDL_MOUSEBUTTONUP")) ]_vars

\* a second event of one drain, a scroll down at zoom 50, has left the target
\* at 50 * 1.025, one scaling away from zoom
C20_Witness ==
    /\ pc = "poll" /\ drained = 2
    /\ ev.type = "SDL_MOUSEWHEEL" /\ ev.y < 0
    /\ zoom = FromInt(50) /\ desired_zoom = Mul1025(zoom)
    /\ ~quit /\ ~resized /\ held = {}

=============================================================================
